---- MODULE Spec2Model ----
(***************************************************************************)
(* Dental budget backend: the practice CRUD router (routers/practices.py)  *)
(* and the reporting router (routers/reports.py) over the relational       *)
(* store.                                                                  *)
(*                                                                         *)
(* A table is a sequence of rows in the order the store returns them to an *)
(* unordered query (.all(), .first()).  Rows carry the attributes the      *)
(* handlers read.  Money is Numeric(15, 2): an amount is an integer number *)
(* of cents, so 50000.00 is 5000000.  Dates are day numbers.               *)
(*                                                                         *)
(* A handler runs as one step: FastAPI runs a sync handler to completion   *)
(* on its own session, and the response it produces is kept in resp.       *)
(* The section on requests in flight splits a request at its store round   *)
(* trips, from the session get_db opens to the one it closes.              *)
(* The ORM mapping and the response_model serialisation of the framework   *)
(* are outside the model: a response body holds the values the handler     *)
(* hands to it.                                                            *)
(***************************************************************************)
EXTENDS Integers, Sequences, FiniteSets, TLC

VARIABLES
    practices,     \* table practices: [id, name, location, status]
    next_id,       \* next value of the practices.id primary-key sequence
    periods,       \* table budget_periods: [id, start_date, end_date]
    budget_lines,  \* table budget_lines: [id, practice_id, budget_period_id,
                   \*                      account_category_id, amount]; the
                   \* seed script's rows have category_id, month, budget_amount,
                   \* actual_amount and variance instead of the last two
    actuals,       \* table actuals: [id, practice_id, budget_period_id,
                   \*                 account_category_id, amount]
    resp,          \* the response of the last request
    requests,      \* per client, the request it has in flight and how far it is
    sessions       \* the clients whose request holds an open store session

vars == <<practices, next_id, periods, budget_lines, actuals, resp, requests, sessions>>

store == <<practices, next_id, periods, budget_lines, actuals>>

\* what a handler that runs as one step leaves as it was: its session is
\* opened and closed within the step
serving == <<requests, sessions>>

-----------------------------------------------------------------------------
(* Bounds of the model. *)

MaxLines == 2        \* rows of budget_lines drawn in a variance store
MaxActuals == 2      \* rows of actuals drawn in a store
MaxPeriods == 2      \* rows of budget_periods drawn in a P&L store
MaxCreated == 2      \* practices ever inserted in a run of the service

\* the clients that may have a request in flight at the same time
Clients == {1, 2}

\* a client with no request in flight
IdleRequest == [pc |-> "idle"]

\* no request is in flight
Quiet ==
    /\ requests = [c \in Clients |-> IdleRequest]
    /\ sessions = {}

\* ids a request may name: 1 and 2 can be stored, 3 never is
RequestIds == {1, 2, 3}

\* days a P&L request may name (stored windows reach day 3)
Dates == {1, 2}

-----------------------------------------------------------------------------
(* Fixed rows. *)

\* account_categories, as scripts/seed_data.py seeds them (three of them)
categories ==
    << [id |-> 1, name |-> "Revenue - Diagnostic", category_type |-> "revenue"],
       [id |-> 2, name |-> "Processing Fees",      category_type |-> "expense"],
       [id |-> 3, name |-> "Doctor Days",          category_type |-> "metric"] >>

\* two practices of the seed script, as stored rows
SeedPractices ==
    << [id |-> 1, name |-> "Austin PC",   location |-> "TX001", status |-> "active"],
       [id |-> 2, name |-> "Beaumont PC", location |-> "TX003", status |-> "active"] >>

SeedPeriods ==
    << [id |-> 1, start_date |-> 1, end_date |-> 1],
       [id |-> 2, start_date |-> 2, end_date |-> 2] >>

-----------------------------------------------------------------------------
(* Helpers of the data-access layer. *)

\* the sequences over S of length at most n
SeqsUpTo(S, n) == UNION { [1..k -> S] : k \in 0..n }

\* rows get their primary key from their position in the table
WithIds(rows) == [i \in 1..Len(rows) |-> [id |-> i] @@ rows[i]]

\* None, where a row is expected
NoRow == [id |-> 0]

\* .first() of a query whose matching rows are rows: the first of them, or None
First(rows) == IF rows = <<>> THEN NoRow ELSE Head(rows)

RECURSIVE SumSeq(_)
SumSeq(s) == IF s = <<>> THEN 0 ELSE Head(s) + SumSeq(Tail(s))

NoBody == [empty |-> TRUE]
NoDetail == [msg |-> "", args |-> <<>>]
NoResp == [op |-> "none", req |-> NoBody, status |-> 0,
           detail |-> NoDetail, body |-> NoBody]

\* raise HTTPException(status_code, detail): no body is returned
HTTPException(op, req, status_code, msg, args) ==
    [op |-> op, req |-> req, status |-> status_code,
     detail |-> [msg |-> msg, args |-> args], body |-> NoBody]

Response(op, req, status_code, body) ==
    [op |-> op, req |-> req, status |-> status_code,
     detail |-> NoDetail, body |-> body]

HTTP_200_OK == 200
HTTP_201_CREATED == 201
HTTP_204_NO_CONTENT == 204
HTTP_400_BAD_REQUEST == 400
HTTP_404_NOT_FOUND == 404

-----------------------------------------------------------------------------
(* routers/reports.py: get_variance_report *)

\* the lookup that keeps the first row fetched for a category
RECURSIVE ActualsLookupFrom_firstWins(_, _, _)
ActualsLookupFrom_firstWins(rows, i, lookup) ==
    IF i > Len(rows) THEN lookup
    ELSE ActualsLookupFrom_firstWins(rows, i + 1,
            [c \in (DOMAIN lookup) \cup {rows[i].account_category_id} |->
                IF c \in DOMAIN lookup THEN lookup[c]
                ELSE rows[i].amount])

\* actuals_lookup = {actual.account_category_id: actual.amount for actual in actuals}
\* a later row of the same category overwrites the earlier one
RECURSIVE ActualsLookupFrom(_, _, _)
ActualsLookupFrom(rows, i, lookup) ==
    IF i > Len(rows) THEN lookup
    ELSE ActualsLookupFrom(rows, i + 1,
            [c \in (DOMAIN lookup) \cup {rows[i].account_category_id} |->
                IF c = rows[i].account_category_id THEN rows[i].amount
                ELSE lookup[c]])

ActualsLookup(rows) == ActualsLookupFrom(rows, 1, <<>>)

\* actuals_lookup.get(category_id, Decimal('0'))
LookupGet(lookup, category_id) ==
    IF category_id \in DOMAIN lookup THEN lookup[category_id] ELSE 0

\* the schemas.BudgetLine(...) the handler appends: the keyword arguments it passes
LineItem(budget_line) ==
    [id                  |-> budget_line.id,
     practice_id         |-> budget_line.practice_id,
     budget_period_id    |-> budget_line.budget_period_id,
     account_category_id |-> budget_line.account_category_id,
     amount              |-> budget_line.amount]

\* total_actual = actual_amount: the running total is overwritten
AddActual_overwrite(total_actual, actual_amount) == actual_amount

\* total_actual += actual_amount
AddActual(total_actual, actual_amount) == total_actual + actual_amount

\* the loop over budget_lines: running totals and line_items
RECURSIVE VarianceLoop(_, _, _, _)
VarianceLoop(lines, lookup, i, acc) ==
    IF i > Len(lines) THEN acc
    ELSE LET budget_line   == lines[i]
             actual_amount == LookupGet(lookup, budget_line.account_category_id)
             variance      == actual_amount - budget_line.amount
         IN  VarianceLoop(lines, lookup, i + 1,
                [total_budget |-> acc.total_budget + budget_line.amount,
                 total_actual |-> AddActual(acc.total_actual, actual_amount),
                 line_items   |-> Append(acc.line_items, LineItem(budget_line))])

\* the percentage without its zero guard
VariancePercentage_unguarded(total_variance, total_budget) ==
    [num |-> total_variance * 100, den |-> total_budget]

\* the ratio not scaled to a percentage
VariancePercentage_ratio(total_variance, total_budget) ==
    IF total_budget # 0
    THEN [num |-> total_variance, den |-> total_budget]
    ELSE [num |-> 0, den |-> 1]

\* float((total_variance / total_budget * 100) if total_budget != 0 else 0), as the
\* exact fraction num/den (the rounding of Decimal and float is not modelled)
VariancePercentage(total_variance, total_budget) ==
    IF total_budget # 0
    THEN [num |-> total_variance * 100, den |-> total_budget]
    ELSE [num |-> 0, den |-> 1]

\* total_variance = total_actual - total_budget
TotalVariance(total_actual, total_budget) == total_actual - total_budget

\* the practice lookup and its 404
VariancePracticeCheck(practice_id) ==
    First(SelectSeq(practices, LAMBDA p : p.id = practice_id))

\* the period lookup and its 404
VariancePeriodCheck(period_id) ==
    First(SelectSeq(periods, LAMBDA p : p.id = period_id))

\* the report whose total_actual adds up the actuals fetched, not the lines' lookups
VarianceReport_fetchedActuals(practice, period, practice_id, period_id) ==
    LET lines  == SelectSeq(budget_lines,
                     LAMBDA l : l.practice_id = practice_id
                                /\ l.budget_period_id = period_id)
        rows   == SelectSeq(actuals,
                     LAMBDA a : a.practice_id = practice_id
                                /\ a.budget_period_id = period_id)
        acc    == VarianceLoop(lines, ActualsLookup(rows), 1,
                     [total_budget |-> 0, total_actual |-> 0, line_items |-> <<>>])
        total_actual   == SumSeq([i \in 1..Len(rows) |-> rows[i].amount])
        total_variance == TotalVariance(total_actual, acc.total_budget)
    IN  [practice            |-> practice,
         period              |-> period,
         total_budget        |-> acc.total_budget,
         total_actual        |-> total_actual,
         total_variance      |-> total_variance,
         variance_percentage |-> VariancePercentage(total_variance, acc.total_budget),
         line_items          |-> acc.line_items]

VarianceReport(practice, period, practice_id, period_id) ==
    LET lines  == SelectSeq(budget_lines,
                     LAMBDA l : l.practice_id = practice_id
                                /\ l.budget_period_id = period_id)
        rows   == SelectSeq(actuals,
                     LAMBDA a : a.practice_id = practice_id
                                /\ a.budget_period_id = period_id)
        acc    == VarianceLoop(lines, ActualsLookup(rows), 1,
                     [total_budget |-> 0, total_actual |-> 0, line_items |-> <<>>])
        total_variance == TotalVariance(acc.total_actual, acc.total_budget)
    IN  [practice            |-> practice,
         period              |-> period,
         total_budget        |-> acc.total_budget,
         total_actual        |-> acc.total_actual,
         total_variance      |-> total_variance,
         variance_percentage |-> VariancePercentage(total_variance, acc.total_budget),
         line_items          |-> acc.line_items]

\* the period resolved before the practice
VarianceResponse_periodFirst(practice_id, period_id) ==
    LET req      == [practice_id |-> practice_id, period_id |-> period_id]
        practice == VariancePracticeCheck(practice_id)
        period   == VariancePeriodCheck(period_id)
    IN  IF period = NoRow
        THEN HTTPException("get_variance_report", req, HTTP_404_NOT_FOUND,
                 "Budget period with id {period_id} not found", <<period_id>>)
        ELSE IF practice = NoRow
        THEN HTTPException("get_variance_report", req, HTTP_404_NOT_FOUND,
                 "Practice with id {practice_id} not found", <<practice_id>>)
        ELSE Response("get_variance_report", req, HTTP_200_OK,
                 VarianceReport(practice, period, practice_id, period_id))

VarianceResponse(practice_id, period_id) ==
    LET req      == [practice_id |-> practice_id, period_id |-> period_id]
        practice == VariancePracticeCheck(practice_id)
        period   == VariancePeriodCheck(period_id)
    IN  IF practice = NoRow
        THEN HTTPException("get_variance_report", req, HTTP_404_NOT_FOUND,
                 "Practice with id {practice_id} not found", <<practice_id>>)
        ELSE IF period = NoRow
        THEN HTTPException("get_variance_report", req, HTTP_404_NOT_FOUND,
                 "Budget period with id {period_id} not found", <<period_id>>)
        ELSE Response("get_variance_report", req, HTTP_200_OK,
                 VarianceReport(practice, period, practice_id, period_id))

get_variance_report(practice_id, period_id) ==
    /\ resp' = VarianceResponse(practice_id, period_id)
    /\ UNCHANGED store
    /\ UNCHANGED serving

-----------------------------------------------------------------------------
(* The variance router over a drawn store. *)

\* budget lines a variance store is drawn from: practice 1, period 1 with the
\* scenario's 50000.00, amounts that cancel, a category without actuals, and
\* lines of another practice and of another period
LineUniverse ==
    { [practice_id |-> 1, budget_period_id |-> 1, account_category_id |-> 1, amount |-> 5000000],
      [practice_id |-> 1, budget_period_id |-> 1, account_category_id |-> 1, amount |-> 100],
      [practice_id |-> 1, budget_period_id |-> 1, account_category_id |-> 2, amount |-> -100],
      [practice_id |-> 1, budget_period_id |-> 1, account_category_id |-> 3, amount |-> 100],
      [practice_id |-> 2, budget_period_id |-> 1, account_category_id |-> 1, amount |-> 100],
      [practice_id |-> 1, budget_period_id |-> 2, account_category_id |-> 2, amount |-> 100] }

ActualUniverse ==
    { [practice_id |-> 1, budget_period_id |-> 1, account_category_id |-> 1, amount |-> 4850000],
      [practice_id |-> 1, budget_period_id |-> 1, account_category_id |-> 1, amount |-> 250],
      [practice_id |-> 1, budget_period_id |-> 1, account_category_id |-> 2, amount |-> 250],
      [practice_id |-> 2, budget_period_id |-> 1, account_category_id |-> 1, amount |-> 70],
      [practice_id |-> 1, budget_period_id |-> 2, account_category_id |-> 1, amount |-> 70] }

InitVariance ==
    /\ practices = SeedPractices
    /\ next_id = Len(SeedPractices) + 1
    /\ periods = SeedPeriods
    /\ budget_lines \in { WithIds(rows) : rows \in SeqsUpTo(LineUniverse, MaxLines) }
    /\ actuals \in { WithIds(rows) : rows \in SeqsUpTo(ActualUniverse, MaxActuals) }
    /\ resp = NoResp
    /\ Quiet

NextVariance ==
    \E practice_id \in RequestIds, period_id \in RequestIds :
        get_variance_report(practice_id, period_id)

SpecVariance == InitVariance /\ [][NextVariance]_vars

-----------------------------------------------------------------------------
(* routers/reports.py: get_pl_report *)

\* the values of AccountCategory.category_type
CategoryTypes == <<"revenue", "expense", "metric">>

\* total or Decimal('0')
OrZero(total) == IF total = 0 THEN 0 ELSE total

\* periods that merely overlap the requested range
PeriodsInRange_overlap(start_date, end_date) ==
    SelectSeq(periods,
        LAMBDA p : p.start_date <= end_date /\ p.end_date >= start_date)

\* query(BudgetPeriod).filter(start_date >= start_date, end_date <= end_date).all()
PeriodsInRange(start_date, end_date) ==
    SelectSeq(periods,
        LAMBDA p : p.start_date >= start_date /\ p.end_date <= end_date)

\* period_ids = [p.id for p in periods]
PeriodIds(rows) == { rows[i].id : i \in DOMAIN rows }

\* the category an actual joins to (AccountCategory.id == account_category_id)
CategoryOf(actual) ==
    First(SelectSeq(categories, LAMBDA c : c.id = actual.account_category_id))

\* the joined and filtered rows both aggregate queries sum over
PLActuals(practice_id, period_ids) ==
    SelectSeq(actuals,
        LAMBDA a : /\ CategoryOf(a) # NoRow
                   /\ a.practice_id = practice_id
                   /\ a.budget_period_id \in period_ids)

\* func.sum(Actuals.amount) over the rows of a group
SumAmounts(rows) == SumSeq([i \in 1..Len(rows) |-> rows[i].amount])

\* actuals_summary: one (category_type, total) per category type that has rows
ActualsSummary(rows) ==
    SelectSeq(
        [i \in 1..Len(CategoryTypes) |->
            [category_type |-> CategoryTypes[i],
             total |-> SumAmounts(SelectSeq(rows,
                          LAMBDA a : CategoryOf(a).category_type = CategoryTypes[i]))]],
        LAMBDA g : \E i \in DOMAIN rows :
                       CategoryOf(rows[i]).category_type = g.category_type)

\* a group that is not revenue is counted as an expense
PLAccumulate_else(acc, group) ==
    IF group.category_type = "revenue"
    THEN [acc EXCEPT !.total_revenue = @ + OrZero(group.total)]
    ELSE [acc EXCEPT !.total_expenses = @ + OrZero(group.total)]

\* the body of the loop over actuals_summary
PLAccumulate(acc, group) ==
    IF group.category_type = "revenue"
    THEN [acc EXCEPT !.total_revenue = @ + OrZero(group.total)]
    ELSE IF group.category_type = "expense"
    THEN [acc EXCEPT !.total_expenses = @ + OrZero(group.total)]
    ELSE acc

RECURSIVE PLTotals(_, _, _)
PLTotals(summary, i, acc) ==
    IF i > Len(summary) THEN acc
    ELSE PLTotals(summary, i + 1, PLAccumulate(acc, summary[i]))

\* categories: one row per category that joins to at least one of the rows,
\* and category_list built from it
CategoryList(rows) ==
    SelectSeq(
        [i \in 1..Len(categories) |->
            [id     |-> categories[i].id,
             name   |-> categories[i].name,
             type   |-> categories[i].category_type,
             amount |-> OrZero(SumAmounts(SelectSeq(rows,
                           LAMBDA a : a.account_category_id = categories[i].id)))]],
        LAMBDA c : \E i \in DOMAIN rows : rows[i].account_category_id = c.id)

PLReport(practice, practice_id, start_date, end_date) ==
    LET period_ids == PeriodIds(PeriodsInRange(start_date, end_date))
        rows       == PLActuals(practice_id, period_ids)
        totals     == PLTotals(ActualsSummary(rows), 1,
                         [total_revenue |-> 0, total_expenses |-> 0])
    IN  [practice       |-> practice,
         start_date     |-> start_date,
         end_date       |-> end_date,
         total_revenue  |-> totals.total_revenue,
         total_expenses |-> totals.total_expenses,
         net_income     |-> totals.total_revenue - totals.total_expenses,
         categories     |-> CategoryList(rows)]

\* the periods examined before the practice
PLResponse_periodsFirst(practice_id, start_date, end_date) ==
    LET req      == [practice_id |-> practice_id,
                     start_date |-> start_date, end_date |-> end_date]
        practice == First(SelectSeq(practices, LAMBDA p : p.id = practice_id))
    IN  IF PeriodsInRange(start_date, end_date) = <<>>
        THEN HTTPException("get_pl_report", req, HTTP_404_NOT_FOUND,
                 "No budget periods found between {start_date} and {end_date}",
                 <<start_date, end_date>>)
        ELSE IF practice = NoRow
        THEN HTTPException("get_pl_report", req, HTTP_404_NOT_FOUND,
                 "Practice with id {practice_id} not found", <<practice_id>>)
        ELSE Response("get_pl_report", req, HTTP_200_OK,
                 PLReport(practice, practice_id, start_date, end_date))

\* the report refused to a practice that has no actuals in the selected periods
PLResponse_ownActuals(practice_id, start_date, end_date) ==
    LET req      == [practice_id |-> practice_id,
                     start_date |-> start_date, end_date |-> end_date]
        practice == First(SelectSeq(practices, LAMBDA p : p.id = practice_id))
        selected == PeriodsInRange(start_date, end_date)
    IN  IF practice = NoRow
        THEN HTTPException("get_pl_report", req, HTTP_404_NOT_FOUND,
                 "Practice with id {practice_id} not found", <<practice_id>>)
        ELSE IF selected = <<>> \/ PLActuals(practice_id, PeriodIds(selected)) = <<>>
        THEN HTTPException("get_pl_report", req, HTTP_404_NOT_FOUND,
                 "No budget periods found between {start_date} and {end_date}",
                 <<start_date, end_date>>)
        ELSE Response("get_pl_report", req, HTTP_200_OK,
                 PLReport(practice, practice_id, start_date, end_date))

PLResponse(practice_id, start_date, end_date) ==
    LET req      == [practice_id |-> practice_id,
                     start_date |-> start_date, end_date |-> end_date]
        practice == First(SelectSeq(practices, LAMBDA p : p.id = practice_id))
    IN  IF practice = NoRow
        THEN HTTPException("get_pl_report", req, HTTP_404_NOT_FOUND,
                 "Practice with id {practice_id} not found", <<practice_id>>)
        ELSE IF PeriodsInRange(start_date, end_date) = <<>>
        THEN HTTPException("get_pl_report", req, HTTP_404_NOT_FOUND,
                 "No budget periods found between {start_date} and {end_date}",
                 <<start_date, end_date>>)
        ELSE Response("get_pl_report", req, HTTP_200_OK,
                 PLReport(practice, practice_id, start_date, end_date))

get_pl_report(practice_id, start_date, end_date) ==
    /\ resp' = PLResponse(practice_id, start_date, end_date)
    /\ UNCHANGED store
    /\ UNCHANGED serving

-----------------------------------------------------------------------------
(* The P&L router over a drawn store. *)

\* the windows a stored budget period may have (start_date <= end_date)
WindowUniverse ==
    { [start_date |-> 1, end_date |-> 1],
      [start_date |-> 1, end_date |-> 2],
      [start_date |-> 2, end_date |-> 2],
      [start_date |-> 2, end_date |-> 3] }

\* actuals of practice 1 of each category type in period 1, one in period 2,
\* and one of practice 2
PLActualUniverse ==
    { [practice_id |-> 1, budget_period_id |-> 1, account_category_id |-> 1, amount |-> 500],
      [practice_id |-> 1, budget_period_id |-> 1, account_category_id |-> 2, amount |-> 200],
      [practice_id |-> 1, budget_period_id |-> 1, account_category_id |-> 3, amount |-> 40],
      [practice_id |-> 1, budget_period_id |-> 2, account_category_id |-> 1, amount |-> 70],
      [practice_id |-> 2, budget_period_id |-> 1, account_category_id |-> 1, amount |-> 30] }

InitPL ==
    /\ practices = SeedPractices
    /\ next_id = Len(SeedPractices) + 1
    /\ periods \in { WithIds(rows) : rows \in SeqsUpTo(WindowUniverse, MaxPeriods) }
    /\ budget_lines = <<>>
    /\ actuals \in { WithIds(rows) : rows \in SeqsUpTo(PLActualUniverse, MaxActuals) }
    /\ \A i \in DOMAIN actuals : actuals[i].budget_period_id <= Len(periods)
    /\ resp = NoResp
    /\ Quiet

NextPL ==
    \E practice_id \in RequestIds, start_date \in Dates, end_date \in Dates :
        get_pl_report(practice_id, start_date, end_date)

SpecPL == InitPL /\ [][NextPL]_vars

-----------------------------------------------------------------------------
(* routers/practices.py *)

\* the values a request gives the fields of a practice
Names == {"Austin PC", "Beaumont PC"}
Locations == {"TX001", "TX003"}
Statuses == {"active", "inactive"}

\* schemas.PracticeCreate
PracticeCreate == [name : Names, location : Locations, status : Statuses]

FieldValues(field) ==
    CASE field = "name"     -> Names
      [] field = "location" -> Locations
      [] field = "status"   -> Statuses

\* schemas.PracticeUpdate as practice_update.dict(exclude_unset=True): the fields
\* the request sets, with their values
PracticeUpdate ==
    UNION { { u \in [fields -> Names \cup Locations \cup Statuses] :
                \A f \in fields : u[f] \in FieldValues(f) } :
            fields \in SUBSET {"name", "location", "status"} }

\* db.query(PracticeModel).filter(PracticeModel.id == practice_id).first()
PracticeById(practice_id) ==
    First(SelectSeq(practices, LAMBDA p : p.id = practice_id))

\* the listing that counts the offset from the row after the first
PracticesResponse_fromSkip(skip, limit) ==
    Response("get_practices", [skip |-> skip, limit |-> limit], HTTP_200_OK,
        SubSeq(practices, skip + 2,
               IF skip + 1 + limit < Len(practices) THEN skip + 1 + limit
               ELSE Len(practices)))

\* get_practices: query(PracticeModel).offset(skip).limit(limit).all()
PracticesResponse(skip, limit) ==
    Response("get_practices", [skip |-> skip, limit |-> limit], HTTP_200_OK,
        SubSeq(practices, skip + 1,
               IF skip + limit < Len(practices) THEN skip + limit ELSE Len(practices)))

get_practices(skip, limit) ==
    /\ resp' = PracticesResponse(skip, limit)
    /\ UNCHANGED store
    /\ UNCHANGED serving

PracticeResponse(practice_id) ==
    LET req      == [practice_id |-> practice_id]
        practice == PracticeById(practice_id)
    IN  IF practice = NoRow
        THEN HTTPException("get_practice", req, HTTP_404_NOT_FOUND,
                 "Practice with id {practice_id} not found", <<practice_id>>)
        ELSE Response("get_practice", req, HTTP_200_OK, practice)

get_practice(practice_id) ==
    /\ resp' = PracticeResponse(practice_id)
    /\ UNCHANGED store
    /\ UNCHANGED serving

\* the existence check made on the location column
ExistingPractice_location(practice) ==
    First(SelectSeq(practices, LAMBDA p : p.location = practice.name))

\* existing = query(PracticeModel).filter(PracticeModel.name == practice.name).first()
ExistingPractice(practice) ==
    First(SelectSeq(practices, LAMBDA p : p.name = practice.name))

create_practice(practice) ==
    /\ UNCHANGED serving
    /\ IF ExistingPractice(practice) # NoRow
       THEN /\ resp' = HTTPException("create_practice", practice, HTTP_400_BAD_REQUEST,
                           "Practice with name '{practice.name}' already exists",
                           <<practice.name>>)
            /\ UNCHANGED store
       ELSE LET db_practice == [id |-> next_id] @@ practice
            IN  /\ next_id <= MaxCreated
                /\ practices' = Append(practices, db_practice)
                /\ next_id' = next_id + 1
                /\ resp' = Response("create_practice", practice, HTTP_201_CREATED, db_practice)
                /\ UNCHANGED <<periods, budget_lines, actuals>>

\* the value of a field the payload leaves unset (Optional[...] = None)
None == "None"

\* the update from practice_update.dict(): an unset field overwrites with None
ApplyUpdate_unset(db_practice, update_data) ==
    [field \in DOMAIN db_practice |->
        IF field \in DOMAIN update_data THEN update_data[field]
        ELSE IF field = "id" THEN db_practice[field]
        ELSE None]

\* for field, value in update_data.items(): setattr(db_practice, field, value)
ApplyUpdate(db_practice, update_data) ==
    [field \in DOMAIN db_practice |->
        IF field \in DOMAIN update_data THEN update_data[field]
        ELSE db_practice[field]]

update_practice(practice_id, update_data) ==
    /\ UNCHANGED serving
    /\ LET req == [practice_id |-> practice_id, update_data |-> update_data]
       IN  IF PracticeById(practice_id) = NoRow
           THEN /\ resp' = HTTPException("update_practice", req, HTTP_404_NOT_FOUND,
                               "Practice with id {practice_id} not found", <<practice_id>>)
                /\ UNCHANGED store
           ELSE /\ practices' = [i \in DOMAIN practices |->
                                    IF practices[i].id = practice_id
                                    THEN ApplyUpdate(practices[i], update_data)
                                    ELSE practices[i]]
                /\ resp' = Response("update_practice", req, HTTP_200_OK,
                               ApplyUpdate(PracticeById(practice_id), update_data))
                /\ UNCHANGED <<next_id, periods, budget_lines, actuals>>

\* the delete that answers 204 without removing the row
delete_practice_kept(practice_id) ==
    /\ UNCHANGED serving
    /\ LET req == [practice_id |-> practice_id]
       IN  IF PracticeById(practice_id) = NoRow
           THEN /\ resp' = HTTPException("delete_practice", req, HTTP_404_NOT_FOUND,
                               "Practice with id {practice_id} not found", <<practice_id>>)
                /\ UNCHANGED store
           ELSE /\ resp' = Response("delete_practice", req, HTTP_204_NO_CONTENT, NoBody)
                /\ UNCHANGED store

delete_practice(practice_id) ==
    /\ UNCHANGED serving
    /\ LET req == [practice_id |-> practice_id]
       IN  IF PracticeById(practice_id) = NoRow
           THEN /\ resp' = HTTPException("delete_practice", req, HTTP_404_NOT_FOUND,
                               "Practice with id {practice_id} not found", <<practice_id>>)
                /\ UNCHANGED store
           ELSE /\ practices' = SelectSeq(practices, LAMBDA p : p.id # practice_id)
                /\ resp' = Response("delete_practice", req, HTTP_204_NO_CONTENT, NoBody)
                /\ UNCHANGED <<next_id, periods, budget_lines, actuals>>

-----------------------------------------------------------------------------
(* The service: the store after the migration, and every handler. *)

\* get_practices(skip: int = 0, limit: int = 100): what a request without the
\* query parameters gets
DefaultSkip == 0
DefaultLimit == 100

\* the values of skip and limit a listing request gives
Skips == {DefaultSkip, 1, 2}
Limits == {0, 1, DefaultLimit}

Init ==
    /\ practices = <<>>
    /\ next_id = 1
    /\ periods = <<>>
    /\ budget_lines = <<>>
    /\ actuals = <<>>
    /\ resp = NoResp
    /\ Quiet

Next ==
    \/ \E skip \in Skips, limit \in Limits : get_practices(skip, limit)
    \/ \E practice_id \in RequestIds : get_practice(practice_id)
    \/ \E practice \in PracticeCreate : create_practice(practice)
    \/ \E practice_id \in RequestIds, update_data \in PracticeUpdate :
           update_practice(practice_id, update_data)
    \/ \E practice_id \in RequestIds : delete_practice(practice_id)
    \/ \E practice_id \in RequestIds, period_id \in RequestIds :
           get_variance_report(practice_id, period_id)
    \/ \E practice_id \in RequestIds, start_date \in Dates, end_date \in Dates :
           get_pl_report(practice_id, start_date, end_date)

Spec == Init /\ [][Next]_vars

-----------------------------------------------------------------------------
(* routers/budget.py and scripts/seed_data.py: the producers of budget lines *)
(* that carry budget_amount, actual_amount and variance.  Amounts are cents.  *)

\* the amounts a create request gives
Amounts == {0, 950000, 1000000, 4850000, 5000000}

\* budget.BudgetLineCreate
BudgetLineCreate ==
    [practice_id : {1, 2}, fiscal_year_id : {1}, category_id : {1}, month : {1},
     budget_amount : Amounts, actual_amount : Amounts]

\* the dict create_budget_line returns
BudgetLineResponse(line) ==
    [id |-> 1] @@ line @@ [variance |-> line.actual_amount - line.budget_amount]

create_budget_line(line) ==
    /\ resp' = Response("create_budget_line", line, HTTP_200_OK, BudgetLineResponse(line))
    /\ UNCHANGED store
    /\ UNCHANGED serving

\* the one line get_budget_lines returns whatever the filters
MockBudgetLines ==
    << [id |-> 1, practice_id |-> 1, fiscal_year_id |-> 1, category_id |-> 1, month |-> 1,
        budget_amount |-> 5000000, actual_amount |-> 4850000, variance |-> -150000] >>

get_budget_lines(practice_id, fiscal_year_id) ==
    /\ resp' = Response("get_budget_lines",
                   [practice_id |-> practice_id, fiscal_year_id |-> fiscal_year_id],
                   HTTP_200_OK, MockBudgetLines)
    /\ UNCHANGED store
    /\ UNCHANGED serving

\* categories = db.query(AccountCategory).limit(5).all()
SampleCategoryLimit == 5

SampleCategories ==
    SubSeq(categories, 1,
        IF Len(categories) < SampleCategoryLimit THEN Len(categories)
        ELSE SampleCategoryLimit)

\* the BudgetLine(...) the seed script adds for a category
SampleBudgetLine(practice, period, category) ==
    [practice_id      |-> practice.id,
     budget_period_id |-> period.id,
     category_id      |-> category.id,
     month            |-> 1,
     budget_amount    |-> 1000000,
     actual_amount    |-> 950000,
     variance         |-> 50000]

\* the loop over categories: a line is added where none exists for the
\* practice, period and category
RECURSIVE SeedLines(_, _, _, _)
SeedLines(lines, practice, period, i) ==
    IF i > Len(SampleCategories) THEN lines
    ELSE LET category == SampleCategories[i]
             existing == First(SelectSeq(lines,
                             LAMBDA l : /\ l.practice_id = practice.id
                                        /\ l.budget_period_id = period.id
                                        /\ l.category_id = category.id))
         IN  SeedLines(
                 IF existing = NoRow
                 THEN Append(lines, [id |-> Len(lines) + 1]
                                    @@ SampleBudgetLine(practice, period, category))
                 ELSE lines,
                 practice, period, i + 1)

\* seed_sample_budget_data(db): the first practice and the first period of its
\* fiscal year; the fiscal year is stored when its periods are
seed_sample_budget_data ==
    /\ UNCHANGED serving
    /\ LET practice == First(practices)
           period   == First(periods)
       IN  /\ budget_lines' =
                  IF practice = NoRow \/ period = NoRow THEN budget_lines
                  ELSE SeedLines(budget_lines, practice, period, 1)
           /\ UNCHANGED <<practices, next_id, periods, actuals, resp>>

\* the store after seed_practices, seed_account_categories and
\* seed_fiscal_year_and_periods
InitBudget ==
    /\ practices = SeedPractices
    /\ next_id = Len(SeedPractices) + 1
    /\ periods = SeedPeriods
    /\ budget_lines = <<>>
    /\ actuals = <<>>
    /\ resp = NoResp
    /\ Quiet

NextBudget ==
    \/ \E line \in BudgetLineCreate : create_budget_line(line)
    \/ \E practice_id \in RequestIds, fiscal_year_id \in RequestIds :
           get_budget_lines(practice_id, fiscal_year_id)
    \/ seed_sample_budget_data

SpecBudget == InitBudget /\ [][NextBudget]_vars

-----------------------------------------------------------------------------
(* schemas.py: the input payloads' fields that hold a kind, and what the    *)
(* schema does with a value given for them.                                  *)

\* the values a request may give such a field: those some validator allows,
\* and others no validator allows
InputValues ==
    {"revenue", "expense", "metric", "draft", "active", "locked", "inactive",
     "manual", "quickbooks", "xero", "import", "admin", "manager", "viewer",
     "owner", "archived", "Revenue"}

\* the input schemas with such a field, and the field
KindField ==
    [PracticeCreate        |-> "status",
     PracticeUpdate        |-> "status",
     AccountCategoryCreate |-> "category_type",
     BudgetPeriodCreate    |-> "status",
     ActualsCreate         |-> "source",
     UserCreate            |-> "role",
     UserUpdate            |-> "role"]

\* raise ValueError(...) inside a validator: the payload is rejected
ValueError == "ValueError"

\* AccountCategoryBase.validate_category_type
validate_category_type(v) ==
    IF v \notin {"revenue", "expense", "metric"} THEN ValueError ELSE v

\* BudgetPeriodBase.validate_status
validate_status(v) ==
    IF v \notin {"draft", "active", "locked"} THEN ValueError ELSE v

\* ActualsBase.validate_source
validate_source(v) ==
    IF v \notin {"manual", "quickbooks", "xero", "import"} THEN ValueError ELSE v

\* UserBase.validate_role
validate_role(v) ==
    IF v \notin {"admin", "manager", "viewer"} THEN ValueError ELSE v

\* a str field with no validator (every value drawn is within max_length)
Unvalidated(v) == v

\* what parsing a payload of the schema makes of the value given for its field
ParseField(schema, v) ==
    CASE schema = "PracticeCreate"        -> Unvalidated(v)
      [] schema = "PracticeUpdate"        -> Unvalidated(v)
      [] schema = "AccountCategoryCreate" -> validate_category_type(v)
      [] schema = "BudgetPeriodCreate"    -> validate_status(v)
      [] schema = "ActualsCreate"         -> validate_source(v)
      [] schema = "UserCreate"            -> validate_role(v)
      [] schema = "UserUpdate"            -> Unvalidated(v)

\* a payload of the schema arrives with the value in its field
parse_payload(schema, v) ==
    /\ resp' = [op     |-> "parse_payload",
                req    |-> [schema |-> schema, field |-> KindField[schema], value |-> v],
                status |-> NoResp.status,
                detail |-> NoDetail,
                body   |-> ParseField(schema, v)]
    /\ UNCHANGED store
    /\ UNCHANGED serving

NextValidation ==
    \E schema \in DOMAIN KindField, v \in InputValues : parse_payload(schema, v)

SpecValidation == Init /\ [][NextValidation]_vars

-----------------------------------------------------------------------------
(* Requests in flight.  FastAPI runs a sync handler on a worker thread, so   *)
(* the handlers of two clients interleave at their store round trips.  Each  *)
(* request has the session Depends(get_db) opens for it; a query reads the   *)
(* committed rows, and a commit makes the session's rows visible to all.     *)

\* the create payloads of concurrent clients: the names, one location and status
ConcurrentCreates == [name : Names, location : {"TX001"}, status : {"active"}]

\* the requests a client may send
ClientRequests ==
    { [op |-> "create_practice", arg |-> practice] : practice \in ConcurrentCreates }
    \cup { [op |-> "get_practice", arg |-> practice_id] : practice_id \in RequestIds }

\* get_db that closes the session only after the handler returned
CloseSession_afterReturn(c, exit) ==
    IF exit = "returned" THEN sessions \ {c} ELSE sessions

\* get_db, finally: db.close(), whatever way the handler was left
CloseSession(c, exit) == sessions \ {c}

\* what is answered when an exception other than HTTPException leaves the handler
UnhandledException(request) ==
    [op |-> request.op, req |-> request.arg, status |-> NoResp.status,
     detail |-> [msg |-> "Exception", args |-> <<>>], body |-> NoBody]

\* get_db: db = SessionLocal(); yield db: the handler is entered with its session
begin_request(c, request) ==
    /\ requests[c].pc = "idle"
    /\ requests' = [requests EXCEPT ![c] = [pc |-> "handler"] @@ request]
    /\ sessions' = sessions \cup {c}
    /\ UNCHANGED <<store, resp>>

\* create_practice up to the existence check: the query, and the 400 it raises
create_practice_query(c) ==
    /\ requests[c].pc = "handler"
    /\ requests[c].op = "create_practice"
    /\ LET practice == requests[c].arg
       IN  requests' = [requests EXCEPT ![c] =
               IF ExistingPractice(practice) # NoRow
               THEN [pc |-> "raised",
                     response |-> HTTPException("create_practice", practice,
                         HTTP_400_BAD_REQUEST,
                         "Practice with name '{practice.name}' already exists",
                         <<practice.name>>)] @@ @
               ELSE [pc |-> "checked"] @@ @]
    /\ UNCHANGED <<store, resp, sessions>>

\* create_practice from db.add to the return: the insert is committed
create_practice_commit(c) ==
    /\ requests[c].pc = "checked"
    /\ next_id <= MaxCreated
    /\ LET practice    == requests[c].arg
           db_practice == [id |-> next_id] @@ practice
       IN  /\ practices' = Append(practices, db_practice)
           /\ next_id' = next_id + 1
           /\ requests' = [requests EXCEPT ![c] =
                  [pc |-> "returned",
                   response |-> Response("create_practice", practice,
                                    HTTP_201_CREATED, db_practice)] @@ @]
    /\ UNCHANGED <<periods, budget_lines, actuals, resp, sessions>>

\* get_practice: one query, then the return or the 404
get_practice_query(c) ==
    /\ requests[c].pc = "handler"
    /\ requests[c].op = "get_practice"
    /\ LET response == PracticeResponse(requests[c].arg)
       IN  requests' = [requests EXCEPT ![c] =
               [pc |-> IF response.status = HTTP_200_OK THEN "returned" ELSE "raised",
                response |-> response] @@ @]
    /\ UNCHANGED <<store, resp, sessions>>

\* a store round trip of the handler fails (the connection drops, the store
\* refuses the statement): an exception that is not an HTTPException leaves
\* the handler, and nothing of the request is committed
handler_fails(c) ==
    /\ requests[c].pc \in {"handler", "checked"}
    /\ requests' = [requests EXCEPT ![c] =
           [pc |-> "failed", response |-> UnhandledException(@)] @@ @]
    /\ UNCHANGED <<store, resp, sessions>>

\* get_db resumes after the yield, with the handler's return or its exception:
\* the finally clause runs and the request is over
end_request(c) ==
    /\ requests[c].pc \in {"returned", "raised", "failed"}
    /\ sessions' = CloseSession(c, requests[c].pc)
    /\ resp' = requests[c].response
    /\ requests' = [requests EXCEPT ![c] = IdleRequest]
    /\ UNCHANGED store

NextRequests ==
    \/ \E c \in Clients, request \in ClientRequests : begin_request(c, request)
    \/ \E c \in Clients : create_practice_query(c)
    \/ \E c \in Clients : create_practice_commit(c)
    \/ \E c \in Clients : get_practice_query(c)
    \/ \E c \in Clients : handler_fails(c)
    \/ \E c \in Clients : end_request(c)

SpecRequests == Init /\ [][NextRequests]_vars

\* the framework resumes get_db once the handler is left
SpecRequestsFair ==
    SpecRequests /\ \A c \in Clients : WF_vars(end_request(c))

-----------------------------------------------------------------------------
(* Properties of the variance report.  They are stated on the store, without  *)
(* the handler's operators.                                                   *)

Max(S) == CHOOSE x \in S : \A y \in S : y <= x

IsVarianceReport == resp.op = "get_variance_report" /\ resp.status = HTTP_200_OK

\* the budget lines of the answered request, in fetch order
RequestedLines ==
    SelectSeq(budget_lines,
        LAMBDA l : l.practice_id = resp.req.practice_id
                   /\ l.budget_period_id = resp.req.period_id)

\* the positions in actuals of the rows of the answered request for a category
ActualRowsOf(category_id) ==
    { i \in DOMAIN actuals :
        /\ actuals[i].practice_id = resp.req.practice_id
        /\ actuals[i].budget_period_id = resp.req.period_id
        /\ actuals[i].account_category_id = category_id }

\* the actual looked up for a category: the last fetched, 0 when none is recorded
ActualOf(category_id) ==
    IF ActualRowsOf(category_id) = {} THEN 0
    ELSE actuals[Max(ActualRowsOf(category_id))].amount

SumOfLineVariances ==
    SumSeq([i \in 1..Len(RequestedLines) |->
        ActualOf(RequestedLines[i].account_category_id) - RequestedLines[i].amount])

\* C1: in every returned variance report the sum of the per-line variances
\* (the actual looked up for the line's category minus the line's budget)
\* equals total_actual - total_budget, and total_variance equals that value.
C1_TotalsMatchLineVariances ==
    IsVarianceReport =>
        /\ SumOfLineVariances = resp.body.total_actual - resp.body.total_budget
        /\ resp.body.total_variance = SumOfLineVariances

\* a report over two lines that both have a non-zero actual
C1_Witness ==
    /\ IsVarianceReport
    /\ Len(RequestedLines) = 2
    /\ \A i \in 1..2 : ActualOf(RequestedLines[i].account_category_id) # 0
    /\ resp.body.total_variance # 0

\* C2: variance_percentage is 0 whenever total_budget is exactly 0, whatever
\* total_actual is, and the quotient is never taken over 0.
C2_ZeroBudgetZeroPercentage ==
    IsVarianceReport =>
        /\ resp.body.variance_percentage.den # 0
        /\ resp.body.total_budget = 0 => resp.body.variance_percentage.num = 0

\* budget lines 1.00 and -1.00 cancel to a total of 0 while the actuals do not
C2_Witness ==
    /\ IsVarianceReport
    /\ Len(RequestedLines) = 2
    /\ \A i \in 1..2 : RequestedLines[i].amount # 0
    /\ resp.body.total_budget = 0
    /\ resp.body.total_actual # 0
    /\ resp.body.variance_percentage.num = 0

\* the store of the scenario: one budget line of 50000.00 and one actual of
\* 48500.00 for the requested practice, period and the same category
ScenarioStore ==
    /\ Len(RequestedLines) = 1
    /\ RequestedLines[1].amount = 5000000
    /\ Cardinality(ActualRowsOf(RequestedLines[1].account_category_id)) = 1
    /\ ActualOf(RequestedLines[1].account_category_id) = 4850000

\* C3: with total_budget # 0 the percentage is total_variance / total_budget * 100;
\* the scenario gives total_budget 50000.00, total_actual 48500.00,
\* total_variance -1500.00 and variance_percentage -3.0.
C3_PercentageOfBudget ==
    IsVarianceReport =>
        /\ resp.body.total_budget # 0 =>
              /\ resp.body.variance_percentage.den = resp.body.total_budget
              /\ resp.body.variance_percentage.num = resp.body.total_variance * 100
        /\ ScenarioStore =>
              /\ resp.body.total_budget = 5000000
              /\ resp.body.total_actual = 4850000
              /\ resp.body.total_variance = -150000
              /\ resp.body.variance_percentage.num
                    = (-3) * resp.body.variance_percentage.den

C3_Witness ==
    /\ IsVarianceReport
    /\ ScenarioStore
    /\ resp.body.variance_percentage = [num |-> -15000000, den |-> 5000000]

\* C4: every line item corresponds to one budget line of the requested practice
\* and period, one item per line in fetch order, and carries the line's budget
\* amount, the actual amount of its category (0 when none) and the line
\* variance actual - budget.
C4_LineItemsCarryActualAndVariance ==
    IsVarianceReport =>
        LET items == resp.body.line_items
        IN  /\ Len(items) = Len(RequestedLines)
            /\ \A i \in 1..Len(items) :
                  LET actual_amount == ActualOf(RequestedLines[i].account_category_id)
                  IN  /\ items[i].id = RequestedLines[i].id
                      /\ items[i].amount = RequestedLines[i].amount
                      /\ "actual_amount" \in DOMAIN items[i]
                      /\ items[i].actual_amount = actual_amount
                      /\ "variance" \in DOMAIN items[i]
                      /\ items[i].variance = actual_amount - RequestedLines[i].amount

PracticeStored(practice_id) == \E i \in DOMAIN practices : practices[i].id = practice_id

PeriodStored(period_id) == \E i \in DOMAIN periods : periods[i].id = period_id

\* C5: get_variance_report answers 404 without a report when the practice id
\* is not stored, naming the practice also when the period is absent too, and
\* 404 naming the period when only the period is absent; the store is unchanged.
C5_VarianceNotFound ==
    [][ resp'.op = "get_variance_report" =>
          /\ store' = store
          /\ ~PracticeStored(resp'.req.practice_id) =>
                /\ resp'.status = HTTP_404_NOT_FOUND
                /\ resp'.body = NoBody
                /\ resp'.detail = [msg  |-> "Practice with id {practice_id} not found",
                                   args |-> <<resp'.req.practice_id>>]
          /\ (PracticeStored(resp'.req.practice_id) /\ ~PeriodStored(resp'.req.period_id)) =>
                /\ resp'.status = HTTP_404_NOT_FOUND
                /\ resp'.body = NoBody
                /\ resp'.detail = [msg  |-> "Budget period with id {period_id} not found",
                                   args |-> <<resp'.req.period_id>>]
      ]_vars

\* neither the practice nor the period of the request is stored
C5_Witness ==
    /\ resp.op = "get_variance_report"
    /\ resp.status = HTTP_404_NOT_FOUND
    /\ ~PracticeStored(resp.req.practice_id)
    /\ ~PeriodStored(resp.req.period_id)
    /\ budget_lines # <<>>

-----------------------------------------------------------------------------
(* Properties of the P&L report, stated on the store. *)

IsPLReport == resp.op = "get_pl_report" /\ resp.status = HTTP_200_OK

\* the stored periods whose window lies inside the answered request's range
InsidePeriodIds ==
    { periods[i].id : i \in
        { j \in DOMAIN periods :
            /\ resp.req.start_date <= periods[j].start_date
            /\ periods[j].end_date <= resp.req.end_date } }

\* the stored periods that share a day with the range without lying inside it
PartlyOverlappingIds ==
    { periods[i].id : i \in
        { j \in DOMAIN periods :
            /\ periods[j].start_date <= resp.req.end_date
            /\ resp.req.start_date <= periods[j].end_date
            /\ ~(/\ resp.req.start_date <= periods[j].start_date
                 /\ periods[j].end_date <= resp.req.end_date) } }

TypeOfCategory(category_id) ==
    categories[CHOOSE i \in DOMAIN categories : categories[i].id = category_id].category_type

\* the sum of the amounts of the rows whose id is wanted
RECURSIVE SumWhere(_, _)
SumWhere(rows, wanted) ==
    IF rows = <<>> THEN 0
    ELSE (IF Head(rows).id \in wanted THEN Head(rows).amount ELSE 0)
         + SumWhere(Tail(rows), wanted)

\* the actuals of the request's practice in the inside periods
SelectedActualIds ==
    { actuals[i].id : i \in
        { j \in DOMAIN actuals :
            /\ actuals[j].practice_id = resp.req.practice_id
            /\ actuals[j].budget_period_id \in InsidePeriodIds } }

IdsOfType(type) ==
    { actuals[i].id : i \in
        { j \in DOMAIN actuals :
            /\ actuals[j].id \in SelectedActualIds
            /\ TypeOfCategory(actuals[j].account_category_id) = type } }

IdsOfCategory(category_id) ==
    { actuals[i].id : i \in
        { j \in DOMAIN actuals :
            /\ actuals[j].id \in SelectedActualIds
            /\ actuals[j].account_category_id = category_id } }

\* C6: net_income = total_revenue - total_expenses; total_revenue is the sum of
\* the practice's actuals in the selected periods whose category type is
\* revenue, total_expenses the same for expense; metric actuals count in neither.
C6_PLTotalsByType ==
    IsPLReport =>
        /\ resp.body.net_income = resp.body.total_revenue - resp.body.total_expenses
        /\ resp.body.total_revenue = SumWhere(actuals, IdsOfType("revenue"))
        /\ resp.body.total_expenses = SumWhere(actuals, IdsOfType("expense"))

\* a report over a revenue actual and a metric actual
C6_Witness ==
    /\ IsPLReport
    /\ IdsOfType("metric") # {}
    /\ SumWhere(actuals, IdsOfType("metric")) # 0
    /\ resp.body.total_revenue # 0
    /\ resp.body.total_expenses = 0

\* C7: for an existing practice and a range that contains no budget period the
\* answer is 404 with a detail naming start_date and end_date, and no report;
\* for a missing practice it is the practice's 404, whatever the periods.
C7_PLNotFound ==
    resp.op = "get_pl_report" =>
        /\ ~PracticeStored(resp.req.practice_id) =>
              /\ resp.status = HTTP_404_NOT_FOUND
              /\ resp.body = NoBody
              /\ resp.detail = [msg  |-> "Practice with id {practice_id} not found",
                                args |-> <<resp.req.practice_id>>]
        /\ (PracticeStored(resp.req.practice_id) /\ InsidePeriodIds = {}) =>
              /\ resp.status = HTTP_404_NOT_FOUND
              /\ resp.body = NoBody
              /\ resp.detail =
                    [msg  |-> "No budget periods found between {start_date} and {end_date}",
                     args |-> <<resp.req.start_date, resp.req.end_date>>]

\* periods are stored, none inside the range of an existing practice's request
C7_Witness ==
    /\ resp.op = "get_pl_report"
    /\ resp.status = HTTP_404_NOT_FOUND
    /\ PracticeStored(resp.req.practice_id)
    /\ periods # <<>>
    /\ resp.req.start_date < resp.req.end_date
    /\ resp.detail.args = <<resp.req.start_date, resp.req.end_date>>

\* the amount the breakdown lists for a category, 0 when it lists none
BreakdownAmount(category_id) ==
    LET listed == SelectSeq(resp.body.categories, LAMBDA c : c.id = category_id)
    IN  IF listed = <<>> THEN 0 ELSE listed[1].amount

\* C8: the report aggregates exactly the periods whose window lies inside the
\* requested range, bounds inclusive: a partly overlapping period contributes
\* nothing, a period equal to the range is included, and start_date > end_date
\* selects no period.
C8_PeriodsInsideRange ==
    (resp.op = "get_pl_report" /\ PracticeStored(resp.req.practice_id)) =>
        /\ resp.status = HTTP_200_OK <=> InsidePeriodIds # {}
        /\ resp.req.start_date > resp.req.end_date => resp.status = HTTP_404_NOT_FOUND
        /\ (\E i \in DOMAIN periods :
               /\ periods[i].start_date = resp.req.start_date
               /\ periods[i].end_date = resp.req.end_date) => resp.status = HTTP_200_OK
        /\ resp.status = HTTP_200_OK =>
              \A i \in DOMAIN categories :
                  BreakdownAmount(categories[i].id)
                      = SumWhere(actuals, IdsOfCategory(categories[i].id))

\* a report for a range that one period equals and another partly overlaps, the
\* overlapping one holding an actual of the practice
C8_Witness ==
    /\ IsPLReport
    /\ \E i \in DOMAIN periods :
           /\ periods[i].start_date = resp.req.start_date
           /\ periods[i].end_date = resp.req.end_date
    /\ \E i \in DOMAIN actuals :
           /\ actuals[i].practice_id = resp.req.practice_id
           /\ actuals[i].budget_period_id \in PartlyOverlappingIds
           /\ actuals[i].amount # 0

\* C9: a category with no actuals of the practice in the selected periods is
\* listed in the breakdown with amount zero, not left out.
C9_EveryCategoryListed ==
    IsPLReport =>
        \A i \in DOMAIN categories :
            \E k \in DOMAIN resp.body.categories :
                /\ resp.body.categories[k].id = categories[i].id
                /\ IdsOfCategory(categories[i].id) = {}
                      => resp.body.categories[k].amount = 0

-----------------------------------------------------------------------------
(* Properties of the practice router. *)

\* C10: the same create-practice request issued twice in sequence is answered
\* the second time with a 400 whose detail names the duplicate name, and the
\* second request leaves the stored practices as the first left them.
C10_SecondCreateConflicts ==
    [][ (/\ resp.op = "create_practice"
         /\ resp'.op = "create_practice"
         /\ resp'.req = resp.req) =>
            /\ resp'.status = HTTP_400_BAD_REQUEST
            /\ resp'.detail = [msg  |-> "Practice with name '{practice.name}' already exists",
                               args |-> <<resp.req.name>>]
            /\ practices' = practices
      ]_vars

\* the request that created the only stored practice has been repeated
C10_Witness ==
    /\ resp.op = "create_practice"
    /\ resp.status = HTTP_400_BAD_REQUEST
    /\ Len(practices) = 1
    /\ practices[1] = [id |-> 1] @@ resp.req
    /\ next_id = 2

\* C11: after any sequence of create, update and delete requests no two stored
\* practices have the same name; in particular an update that renames a
\* practice to the name of another does not leave two practices of that name.
C11_PracticeNamesUnique ==
    \A i \in DOMAIN practices : \A j \in DOMAIN practices :
        practices[i].name = practices[j].name => i = j

Min(S) == CHOOSE x \in S : \A y \in S : x <= y

\* C12: a listing with offset skip and limit limit answers the stored practices
\* at positions [skip, skip + limit) in store order: the second practice alone
\* for skip 1 and limit 1 when two are stored, nothing when skip is at or past
\* the count, and everything stored for the defaults 0 and 100.
C12_ListingIsSlice ==
    resp.op = "get_practices" =>
        LET skip  == resp.req.skip
            limit == resp.req.limit
            count == Len(practices)
        IN  /\ resp.status = HTTP_200_OK
            /\ Len(resp.body) = Max({0, Min({limit, count - skip})})
            /\ \A i \in DOMAIN resp.body : resp.body[i] = practices[skip + i]
            /\ skip >= count => resp.body = <<>>
            /\ (skip = 1 /\ limit = 1 /\ count >= 2) => resp.body = <<practices[2]>>
            /\ (skip = 0 /\ limit = 100 /\ count <= 100) => resp.body = practices

\* two practices are stored and the listing with skip 1, limit 1 answered the second
C12_Witness ==
    /\ resp.op = "get_practices"
    /\ resp.req = [skip |-> 1, limit |-> 1]
    /\ Len(practices) = 2
    /\ resp.body = <<practices[2]>>
    /\ practices[1] # practices[2]

\* C13: update_practice changes, on the addressed practice, the fields the
\* payload gives and no other; every other practice and table is as before;
\* an id that is not stored is answered 404 and the store is unchanged.
C13_UpdateIsPartial ==
    [][ resp'.op = "update_practice" =>
          LET practice_id == resp'.req.practice_id
              update_data == resp'.req.update_data
          IN  IF ~PracticeStored(practice_id)
              THEN /\ resp'.status = HTTP_404_NOT_FOUND
                   /\ store' = store
              ELSE /\ resp'.status = HTTP_200_OK
                   /\ Len(practices') = Len(practices)
                   /\ \A i \in DOMAIN practices :
                        IF practices[i].id # practice_id
                        THEN practices'[i] = practices[i]
                        ELSE /\ DOMAIN practices'[i] = DOMAIN practices[i]
                             /\ \A field \in DOMAIN practices[i] :
                                  practices'[i][field] =
                                      IF field \in DOMAIN update_data
                                      THEN update_data[field]
                                      ELSE practices[i][field]
                             /\ resp'.body = practices'[i]
                   /\ <<next_id, periods, budget_lines, actuals>>' =
                          <<next_id, periods, budget_lines, actuals>>
      ]_vars

\* of two stored practices the second was given a new status alone, and its
\* name and location are still those it was created with
C13_Witness ==
    /\ resp.op = "update_practice"
    /\ resp.status = HTTP_200_OK
    /\ DOMAIN resp.req.update_data = {"status"}
    /\ Len(practices) = 2
    /\ resp.req.practice_id = practices[2].id
    /\ practices[2] = [id |-> 2, name |-> "Beaumont PC", location |-> "TX003",
                       status |-> "inactive"]
    /\ practices[1].status = "active"

-----------------------------------------------------------------------------
(* Properties of the reports that come from how the rows are selected. *)

\* the requested lines of a category, and those of the other categories
LinesOfCategory(category_id) ==
    SelectSeq(RequestedLines, LAMBDA l : l.account_category_id = category_id)

LinesNotOfCategory(category_id) ==
    SelectSeq(RequestedLines, LAMBDA l : l.account_category_id # category_id)

\* C18: when several actuals are recorded for the practice, period and category
\* of a variance report, one of them is used, the last in fetch order, and it
\* is not their sum; every budget line of the category counts that amount.
C18_LastActualWins ==
    IsVarianceReport =>
        \A c \in DOMAIN categories :
            LET category_id == categories[c].id
                others      == LinesNotOfCategory(category_id)
            IN  Cardinality(ActualRowsOf(category_id)) >= 2 =>
                    resp.body.total_actual =
                        Len(LinesOfCategory(category_id))
                            * actuals[Max(ActualRowsOf(category_id))].amount
                        + SumSeq([i \in 1..Len(others) |->
                              ActualOf(others[i].account_category_id)])

\* two budget lines of category 1 were reported against two actuals of that
\* category with different amounts: both lines count the later amount
C18_Witness ==
    /\ IsVarianceReport
    /\ Len(LinesOfCategory(1)) = 2
    /\ Len(actuals) = 2
    /\ ActualRowsOf(1) = {1, 2}
    /\ actuals[1].amount = 4850000
    /\ actuals[2].amount = 250
    /\ resp.body.total_actual = 500

-----------------------------------------------------------------------------
(* Properties of the budget lines that carry a variance. *)

\* C16: every budget line the system produces - answered by create_budget_line
\* or get_budget_lines, or written by the seed script - has a variance equal to
\* its actual_amount minus its budget_amount.
C16_VarianceIsActualMinusBudget ==
    /\ \A i \in DOMAIN budget_lines :
          budget_lines[i].variance =
              budget_lines[i].actual_amount - budget_lines[i].budget_amount
    /\ resp.op = "create_budget_line" =>
          /\ resp.body.budget_amount = resp.req.budget_amount
          /\ resp.body.actual_amount = resp.req.actual_amount
          /\ resp.body.variance = resp.req.actual_amount - resp.req.budget_amount
    /\ resp.op = "get_budget_lines" =>
          \A i \in DOMAIN resp.body :
              resp.body[i].variance =
                  resp.body[i].actual_amount - resp.body[i].budget_amount

-----------------------------------------------------------------------------
(* Properties of the input schemas. *)

\* the closed enumeration of each kind of field
Enumeration(schema) ==
    CASE KindField[schema] = "category_type" -> {"revenue", "expense", "metric"}
      [] KindField[schema] = "source" -> {"manual", "quickbooks", "xero", "import"}
      [] KindField[schema] = "role"   -> {"admin", "manager", "viewer"}
      [] schema \in {"PracticeCreate", "PracticeUpdate"} -> {"active", "inactive"}
      [] OTHER -> {"draft", "active", "locked"}

\* C17: a category_type, status, source or role value that an input payload is
\* accepted with belongs to the field's closed enumeration, in create and in
\* update payloads alike; any other value is rejected.
C17_KindFieldsClosed ==
    resp.op = "parse_payload" =>
        IF resp.req.value \in Enumeration(resp.req.schema)
        THEN resp.body = resp.req.value
        ELSE resp.body = ValueError

-----------------------------------------------------------------------------
(* Properties of requests in flight. *)

InFlight == { c \in Clients : requests[c].pc # "idle" }

\* C15: a request that got its session from get_db has it closed however the
\* handler is left - by its return, by a 4xx HTTPException or by another
\* exception: a session is open only for a request in flight, so no session is
\* open once the requests begun are over.
C15_SessionsClosed ==
    /\ [](sessions = InFlight)
    /\ [](InFlight = {} => Cardinality(sessions) = 0)
    /\ \A c \in Clients :
          (requests[c].pc \in {"returned", "raised", "failed"}) ~> (c \notin sessions)

\* a request was ended by an exception that is not an HTTPException, no request
\* is in flight, and no session is open
C15_Witness ==
    /\ resp.detail.msg = "Exception"
    /\ resp.op = "create_practice"
    /\ InFlight = {}
    /\ sessions = {}
    /\ Len(practices) = 1

\* C19: two create_practice requests of one name that run at the same time, each
\* on its session, do not both store a practice: no name is stored twice, and
\* the two requests are not both answered 201.
C19_ConcurrentCreateOnce ==
    /\ Cardinality({ practices[i].name : i \in DOMAIN practices }) = Len(practices)
    /\ \A c \in Clients : \A d \in Clients \ {c} :
          ~(/\ requests[c].pc = "returned"
            /\ requests[d].pc = "returned"
            /\ requests[c].op = "create_practice"
            /\ requests[d].op = "create_practice"
            /\ requests[c].arg.name = requests[d].arg.name)

-----------------------------------------------------------------------------
(* Properties of total_actual. *)

\* C21: total_actual of a variance report is the sum, over the budget lines of
\* the practice and period, of the actual looked up for the line's category:
\* a category with k such lines counts its actual k times, so an actual of a
\* category without a line counts nothing; without any budget line line_items
\* is empty and every total and the percentage are 0.
C21_TotalActualSumsOverLines ==
    IsVarianceReport =>
        /\ resp.body.total_actual =
               SumSeq([i \in 1..Len(RequestedLines) |->
                   ActualOf(RequestedLines[i].account_category_id)])
        /\ resp.body.total_actual =
               SumSeq([c \in 1..Len(categories) |->
                   Len(LinesOfCategory(categories[c].id)) * ActualOf(categories[c].id)])
        /\ RequestedLines = <<>> =>
               /\ resp.body.line_items = <<>>
               /\ resp.body.total_budget = 0
               /\ resp.body.total_actual = 0
               /\ resp.body.total_variance = 0
               /\ resp.body.variance_percentage.num = 0

\* two budget lines of category 1, whose actual is 2.50, and an actual of 2.50
\* for category 2, which has no line: total_actual is 5.00, twice the first
C21_Witness ==
    /\ IsVarianceReport
    /\ Len(RequestedLines) = 2
    /\ Len(LinesOfCategory(1)) = 2
    /\ ActualOf(1) = 250
    /\ ActualOf(2) = 250
    /\ LinesOfCategory(2) = <<>>
    /\ resp.body.total_actual = 500

\* a report for a practice and period with actuals and no budget line
C21_WitnessNoLines ==
    /\ IsVarianceReport
    /\ RequestedLines = <<>>
    /\ \E c \in 1..Len(categories) : ActualOf(categories[c].id) # 0
    /\ resp.body.line_items = <<>>
    /\ resp.body.total_actual = 0

====
